---------------------------- MODULE Spec2Model ----------------------------
(***************************************************************************)
(* A model of the two scripts of aiports-csv-sorter:                       *)
(*   filter_icao_in_boxes.py               (the filter stage, Pipeline A)  *)
(*   add_icao_points_from_csv_to_geojson.py (the merge stage, Pipeline B)  *)
(*                                                                         *)
(* Text is a sequence of one-character strings, so that str.strip,         *)
(* str.upper, sorted() and float()/format are computed and not assumed.    *)
(* A float is an integer number of degrees: the decimal literals of the    *)
(* model's inputs are integral ("175", "+50", "0.0", "-175.0").            *)
(***************************************************************************)
EXTENDS Integers, Sequences, FiniteSets, TLC

VARIABLES
  prog,            \* which program runs: "contains", "filter" or "merge"
  pc,              \* the position of the program
  \* Box.contains, applied on its own
  c_box, c_lat, c_lon, c_res,
  \* filter_icao_in_boxes.py
  boxes_json,      \* the box definition document
  csv_header,      \* reader.fieldnames of the airport table
  csv_read,        \* the rows the reader has yielded so far
  boxes,           \* load_boxes' result
  combined_rows, per_box_icaos, per_box_seen,
  out_csv, out_json,
  \* add_icao_points_from_csv_to_geojson.py
  gj_file,         \* the polygon document, as the input file holds it
  gj,              \* the polygon document, as loaded
  m_header,        \* reader.fieldnames of the matches table
  m_read,          \* the rows the reader has yielded so far
  icao_to_data, rows_read, rows_used,
  point_features,
  out_geojson

contains_vars == <<c_box, c_lat, c_lon, c_res>>
filter_vars == <<boxes_json, csv_header, csv_read, boxes, combined_rows,
                 per_box_icaos, per_box_seen, out_csv, out_json>>
merge_vars == <<gj_file, gj, m_header, m_read, icao_to_data, rows_read, rows_used,
                point_features, out_geojson>>
vars == <<prog, pc, contains_vars, filter_vars, merge_vars>>

----------------------------------------------------------------------------
(* Bounds of the model. *)

\* the rows a table holds at most
MaxRows == 3
\* the entries a box definition document holds at most
MaxBoxes == 2
\* Box.contains is applied to degrees in -MaxDeg..MaxDeg
MaxDeg == 2

----------------------------------------------------------------------------
(* Text. *)

Lowers == <<"a","b","c","d","e","f","g","h","i","j","k","l","m",
            "n","o","p","q","r","s","t","u","v","w","x","y","z">>
Uppers == <<"A","B","C","D","E","F","G","H","I","J","K","L","M",
            "N","O","P","Q","R","S","T","U","V","W","X","Y","Z">>
Digits == <<"0","1","2","3","4","5","6","7","8","9">>

Range(xs) == {xs[i] : i \in 1..Len(xs)}

IndexOf(c, t) == CHOOSE i \in 1..Len(t) : t[i] = c
IsIn(c, t) == \E i \in 1..Len(t) : t[i] = c

\* the code points of the characters
OrdTable ==
  [c \in Range(Lowers) |-> 96 + IndexOf(c, Lowers)]
    @@ [c \in Range(Uppers) |-> 64 + IndexOf(c, Uppers)]
    @@ [c \in Range(Digits) |-> 47 + IndexOf(c, Digits)]
    @@ (" " :> 32) @@ ("+" :> 43) @@ ("-" :> 45) @@ ("." :> 46) @@ ("_" :> 95)

Ord(c) == OrdTable[c]

UpperTable == [c \in Range(Lowers) |-> Uppers[IndexOf(c, Lowers)]]

IsSpace(c) == c = " "

RECURSIVE LStrip(_)
LStrip(s) ==
  IF s = <<>> THEN <<>>
  ELSE IF IsSpace(Head(s)) THEN LStrip(Tail(s)) ELSE s

RECURSIVE RStrip(_)
RStrip(s) ==
  IF s = <<>> THEN <<>>
  ELSE IF IsSpace(s[Len(s)]) THEN RStrip(SubSeq(s, 1, Len(s) - 1)) ELSE s

\* str.strip()
Strip(s) == RStrip(LStrip(s))

\* str.upper()
Upper(s) ==
  [i \in 1..Len(s) |-> IF s[i] \in DOMAIN UpperTable THEN UpperTable[s[i]] ELSE s[i]]

\* s < t for two str
RECURSIVE StrLess(_, _)
StrLess(s, t) ==
  IF t = <<>> THEN FALSE
  ELSE IF s = <<>> THEN TRUE
  ELSE IF Head(s) = Head(t) THEN StrLess(Tail(s), Tail(t))
  ELSE Ord(Head(s)) < Ord(Head(t))

StrLeq(s, t) == s = t \/ StrLess(s, t)

\* sorted(xs) for a list of str: a stable insertion sort
RECURSIVE InsertSorted(_, _)
InsertSorted(x, xs) ==
  IF xs = <<>> THEN <<x>>
  ELSE IF StrLess(x, Head(xs)) THEN <<x>> \o xs
  ELSE <<Head(xs)>> \o InsertSorted(x, Tail(xs))

RECURSIVE sorted(_)
sorted(xs) ==
  IF xs = <<>> THEN <<>>
  ELSE InsertSorted(xs[Len(xs)], sorted(SubSeq(xs, 1, Len(xs) - 1)))

\* a list of the elements of a set, in some order (a set's iteration order)
RECURSIVE SetToSeq(_)
SetToSeq(S) ==
  IF S = {} THEN <<>>
  ELSE LET x == CHOOSE x \in S : TRUE IN <<x>> \o SetToSeq(S \ {x})

----------------------------------------------------------------------------
(* Optional values: None, or a value. *)

None == [some |-> FALSE, v |-> 0]
Some(x) == [some |-> TRUE, v |-> x]
\* a cell of a table row: restval None where the row is short
NoCell == [some |-> FALSE, v |-> <<>>]

\* (cell or "")
OrEmpty(cell) == IF cell.some /\ cell.v # <<>> THEN cell.v ELSE <<>>

----------------------------------------------------------------------------
(* float(s) and f"{x}" *)

AllDigits(s) == \A i \in 1..Len(s) : IsIn(s[i], Digits)
AllZeros(s) == \A i \in 1..Len(s) : s[i] = "0"

RECURSIVE DigitsValue(_)
DigitsValue(s) ==
  IF s = <<>> THEN 0
  ELSE 10 * DigitsValue(SubSeq(s, 1, Len(s) - 1)) + IndexOf(s[Len(s)], Digits) - 1

DotAt(s) == IF IsIn(".", s) THEN IndexOf(".", s) ELSE Len(s) + 1

\* an unsigned decimal literal with an integral value: digits, or digits "." zeros
IsUnsigned(s) ==
  LET d == DotAt(s) IN
    /\ d > 1
    /\ AllDigits(SubSeq(s, 1, d - 1))
    /\ AllZeros(SubSeq(s, d + 1, Len(s)))

UnsignedValue(s) == DigitsValue(SubSeq(s, 1, DotAt(s) - 1))

\* float(s) of a str: a value, or None for ValueError
FloatOfStr(s) ==
  LET t == Strip(s)
      signed == t # <<>> /\ Head(t) \in {"+", "-"}
      body == IF signed THEN Tail(t) ELSE t
  IN IF ~IsUnsigned(body) THEN None
     ELSE IF signed /\ Head(t) = "-" THEN Some(0 - UnsignedValue(body))
     ELSE Some(UnsignedValue(body))

RECURSIVE NatStr(_)
NatStr(n) ==
  IF n < 10 THEN <<Digits[n + 1]>>
  ELSE NatStr(n \div 10) \o <<Digits[(n % 10) + 1]>>

\* f"{x}" of a float with an integral value
FormatFloat(x) ==
  (IF x < 0 THEN <<"-">> \o NatStr(0 - x) ELSE NatStr(x)) \o <<".", "0">>

\* safe_float of either script: None, a blank or an unparsable cell give None
safe_float(cell) ==
  IF ~cell.some THEN None
  ELSE IF Strip(cell.v) = <<>> THEN None
  ELSE FloatOfStr(Strip(cell.v))

----------------------------------------------------------------------------
(* Box *)

Box(name, min_lat, max_lat, min_lon, max_lon) ==
  [name |-> name, min_lat |-> min_lat, max_lat |-> max_lat,
   min_lon |-> min_lon, max_lon |-> max_lon]

\* (a mutant: the longitude interval is never taken across the antimeridian)
contains_mutant_no_wrap(b, lat, lon) ==
  /\ b.min_lat <= lat /\ lat <= b.max_lat
  /\ b.min_lon <= lon /\ lon <= b.max_lon

contains(b, lat, lon) ==
  IF ~(b.min_lat <= lat /\ lat <= b.max_lat) THEN FALSE
  ELSE IF b.min_lon <= b.max_lon
       THEN b.min_lon <= lon /\ lon <= b.max_lon
       ELSE lon >= b.min_lon \/ lon <= b.max_lon


----------------------------------------------------------------------------
(* Box.contains applied on its own: any box with min_lat <= max_lat and any
   point, in whole degrees of -MaxDeg..MaxDeg. *)

Deg == (0 - MaxDeg)..MaxDeg

IdleContains ==
  /\ c_box = Box(<<>>, 0, 0, 0, 0) /\ c_lat = 0 /\ c_lon = 0 /\ c_res = FALSE

ContainsCall ==
  /\ prog = "contains" /\ pc = "call"
  /\ c_res' = contains(c_box, c_lat, c_lon)
  /\ pc' = "returned"
  /\ UNCHANGED <<prog, c_box, c_lat, c_lon, filter_vars, merge_vars>>

----------------------------------------------------------------------------
(* filter_icao_in_boxes.py: the inputs. *)

LAT_COL == "latitude_deg"
LON_COL == "longitude_deg"
ICAO_COL == "icao_code"
BOX_COL == "box_name"
EXTRA_COLS == <<"ident", "name">>

\* a JSON value of a box entry
JNum(n) == [t |-> "num", n |-> n, s |-> <<>>]
JStr(s) == [t |-> "str", n |-> 0, s |-> s]
JNull == [t |-> "null", n |-> 0, s |-> <<>>]

BoxKeys == {"name", "min_lat", "max_lat", "min_lon", "max_lon"}

Entry(name, min_lat, max_lat, min_lon, max_lon) ==
  [k \in BoxKeys |->
     CASE k = "name" -> name
       [] k = "min_lat" -> min_lat
       [] k = "max_lat" -> max_lat
       [] k = "min_lon" -> min_lon
       [] k = "max_lon" -> max_lon]

Without(entry, key) == [k \in (DOMAIN entry) \ {key} |-> entry[k]]

\* two boxes that overlap in longitudes 170..180, the first across the antimeridian
EntryW == Entry(JStr(<<"W">>), JNum(-10), JNum(10), JNum(170), JNum(-170))
\* (a name to trim, and a bound written as a string, which float() converts)
EntryE == Entry(JStr(<<" ", "E">>), JNum(-10), JStr(<<"6","0",".","0">>), JNum(-10), JNum(180))

ValidEntries == {EntryW, EntryE}

BadEntries ==
  { Without(EntryW, "max_lon"),                                            \* a missing field
    Without(EntryE, "name"),
    Entry(JStr(<<"W">>), JStr(<<"x">>), JNum(10), JNum(170), JNum(-170)),      \* a non-numeric bound
    Entry(JStr(<<"W">>), JNum(-10), JNum(10), JNull, JNum(-170)),
    Entry(JStr(<<" ">>), JNum(-10), JNum(10), JNum(170), JNum(-170)),          \* an empty name
    Entry(JStr(<<"W">>), JNum(20), JNum(10), JNum(170), JNum(-170)),           \* min_lat > max_lat
    Entry(JStr(<<"W">>), JNum(-95), JNum(10), JNum(170), JNum(-170)),          \* a latitude out of range
    Entry(JStr(<<"W">>), JNum(-10), JNum(10), JNum(170), JNum(-200)) }         \* a longitude out of range

BoxEntries == ValidEntries \cup BadEntries

SeqsUpTo(S, n) == UNION {[1..k -> S] : k \in 0..n}

\* the box definition documents: with a "boxes" list, or without the key
BoxDocs ==
  {[has_boxes |-> TRUE, boxes |-> bs] : bs \in SeqsUpTo(BoxEntries, MaxBoxes)}
    \cup {[has_boxes |-> FALSE, boxes |-> <<>>]}

Cell(s) == [some |-> TRUE, v |-> s]

AirportCols == {LAT_COL, LON_COL, ICAO_COL, "ident", "name"}

AirportRow(icao, lat, lon, ident, name) ==
  [c \in AirportCols |->
     CASE c = ICAO_COL -> icao
       [] c = LAT_COL -> lat
       [] c = LON_COL -> lon
       [] c = "ident" -> ident
       [] c = "name" -> name]

\* the rows an airport table is made of
AirportRows ==
  { AirportRow(Cell(<<"a","b">>), Cell(<<"0">>), Cell(<<"1","7","5">>), Cell(<<" ","x">>), NoCell),
    AirportRow(Cell(<<" ","A","B"," ">>), Cell(<<"5","0">>), Cell(<<"0",".","0">>), Cell(<<"y">>), Cell(<<"n"," ">>)),
    AirportRow(Cell(<<"A","B">>), Cell(<<"0">>), Cell(<<"-","1","7","5">>), Cell(<<>>), Cell(<<"m">>)),
    AirportRow(Cell(<<"C","D">>), Cell(<<"0">>), Cell(<<"2","0","0">>), Cell(<<"z">>), NoCell),
    AirportRow(Cell(<<"C","D">>), Cell(<<"+","5","0">>), Cell(<<" ","1","7","5"," ">>), Cell(<<"y">>), NoCell),
    AirportRow(Cell(<<"A","A">>), Cell(<<"0">>), Cell(<<"1","7","5">>), Cell(<<"x">>), NoCell),
    AirportRow(Cell(<<"A","B">>), Cell(<<"-","5","0">>), Cell(<<"0">>), Cell(<<"z">>), NoCell),
    AirportRow(Cell(<<" "," ">>), Cell(<<"0">>), Cell(<<"0">>), Cell(<<"x">>), NoCell),
    AirportRow(Cell(<<"C","D">>), Cell(<<" ">>), Cell(<<"0">>), Cell(<<"x">>), NoCell),
    AirportRow(Cell(<<"C","D">>), Cell(<<"0">>), Cell(<<"x">>), Cell(<<"x">>), NoCell),
    AirportRow(Cell(<<"A","A">>), NoCell, Cell(<<"0">>), Cell(<<"x">>), NoCell) }

\* reader.fieldnames: every column, no code column, no header
AirportHeaders == { AirportCols, AirportCols \ {ICAO_COL}, {} }

\* row.get(c)
RowGet(row, c) == IF c \in DOMAIN row THEN row[c] ELSE NoCell

----------------------------------------------------------------------------
(* filter_icao_in_boxes.py: load_boxes *)

\* float(v) of a JSON value: None stands for the exception
JFloat(j) ==
  CASE j.t = "num" -> Some(j.n)
    [] j.t = "str" -> FloatOfStr(j.s)
    [] OTHER -> None

\* str(v) of a JSON value
JText(j) ==
  CASE j.t = "str" -> j.s
    [] j.t = "num" -> IF j.n < 0 THEN <<"-">> \o NatStr(0 - j.n) ELSE NatStr(j.n)
    [] OTHER -> <<"N", "o", "n", "e">>

\* the body of the try: a missing key or a failing float() raises
EntryParses(b) ==
  /\ BoxKeys \subseteq DOMAIN b
  /\ \A k \in BoxKeys \ {"name"} : JFloat(b[k]).some

EntryBox(b) ==
  Box(Strip(JText(b["name"])), JFloat(b["min_lat"]).v, JFloat(b["max_lat"]).v,
      JFloat(b["min_lon"]).v, JFloat(b["max_lon"]).v)

\* (a mutant: the longitudes are not held to [-180, 180])
EntryError_mutant_no_lon_range(b) ==
  IF ~EntryParses(b) THEN "Invalid box entry"
  ELSE LET x == EntryBox(b) IN
    IF x.name = <<>> THEN "empty name"
    ELSE IF x.min_lat > x.max_lat THEN "min_lat > max_lat"
    ELSE IF ~(-90 <= x.min_lat /\ x.min_lat <= 90 /\ -90 <= x.max_lat /\ x.max_lat <= 90)
      THEN "latitude outside [-90, 90]"
    ELSE ""

\* "" when the entry is accepted, else the ValueError raised for it
EntryError(b) ==
  IF ~EntryParses(b) THEN "Invalid box entry"
  ELSE LET x == EntryBox(b) IN
    IF x.name = <<>> THEN "empty name"
    ELSE IF x.min_lat > x.max_lat THEN "min_lat > max_lat"
    ELSE IF ~(-90 <= x.min_lat /\ x.min_lat <= 90 /\ -90 <= x.max_lat /\ x.max_lat <= 90)
      THEN "latitude outside [-90, 90]"
    ELSE IF ~(-180 <= x.min_lon /\ x.min_lon <= 180 /\ -180 <= x.max_lon /\ x.max_lon <= 180)
      THEN "longitude outside [-180, 180]"
    ELSE ""

Raised(msg) == [ok |-> FALSE, error |-> msg, boxes |-> <<>>]

load_boxes(data) ==
  IF ~data.has_boxes THEN Raised("boxes.json must contain a top-level key 'boxes'")
  ELSE IF \E i \in 1..Len(data.boxes) : EntryError(data.boxes[i]) # ""
    THEN LET i == CHOOSE i \in 1..Len(data.boxes) :
                    /\ EntryError(data.boxes[i]) # ""
                    /\ \A j \in 1..(i - 1) : EntryError(data.boxes[j]) = ""
         IN Raised(EntryError(data.boxes[i]))
  ELSE LET bs == [i \in 1..Len(data.boxes) |-> EntryBox(data.boxes[i])] IN
    IF Cardinality({bs[i].name : i \in 1..Len(bs)}) # Len(bs)
      THEN Raised("Box names must be unique.")
    ELSE [ok |-> TRUE, error |-> "", boxes |-> bs]

----------------------------------------------------------------------------
(* filter_icao_in_boxes.py: filter_csv *)

\* the row of the combined table for a match
OutRow(b, icao, lat, lon, row) ==
  [box_name |-> b.name, icao_code |-> icao,
   latitude_deg |-> FormatFloat(lat), longitude_deg |-> FormatFloat(lon),
   ident |-> Strip(OrEmpty(RowGet(row, EXTRA_COLS[1]))),
   name |-> Strip(OrEmpty(RowGet(row, EXTRA_COLS[2])))]

\* (a mutant: the match is appended without the look at the seen set)
MatchBox_mutant_no_dedup(st, b, icao, lat, lon, row) ==
  IF ~contains(b, lat, lon) THEN st
  ELSE [seen |-> [st.seen EXCEPT ![b.name] = @ \cup {icao}],
        icaos |-> [st.icaos EXCEPT ![b.name] = Append(@, icao)],
        rows |-> Append(st.rows, OutRow(b, icao, lat, lon, row))]

\* the body of "for b in boxes" for one box; st is the three collections
MatchBox(st, b, icao, lat, lon, row) ==
  IF ~contains(b, lat, lon) THEN st
  ELSE IF icao \in st.seen[b.name] THEN st
  ELSE [seen |-> [st.seen EXCEPT ![b.name] = @ \cup {icao}],
        icaos |-> [st.icaos EXCEPT ![b.name] = Append(@, icao)],
        rows |-> Append(st.rows, OutRow(b, icao, lat, lon, row))]

RECURSIVE MatchBoxes(_, _, _, _, _, _)
MatchBoxes(st, bs, icao, lat, lon, row) ==
  IF bs = <<>> THEN st
  ELSE MatchBoxes(MatchBox(st, Head(bs), icao, lat, lon, row), Tail(bs),
                  icao, lat, lon, row)

\* the code of a row: trimmed, uppercased
RowIcao(row) == Upper(Strip(OrEmpty(RowGet(row, ICAO_COL))))

\* whether the row loop leaves the row at one of its two "continue"
FilterSkips(row) ==
  \/ RowIcao(row) = <<>>
  \/ ~safe_float(RowGet(row, LAT_COL)).some
  \/ ~safe_float(RowGet(row, LON_COL)).some

\* the body of "for row in reader"
FilterRowBody(st, bs, row) ==
  IF FilterSkips(row) THEN st
  ELSE MatchBoxes(st, bs, RowIcao(row), safe_float(RowGet(row, LAT_COL)).v,
                  safe_float(RowGet(row, LON_COL)).v, row)

NotWritten == [written |-> FALSE, content |-> <<>>]
Written(x) == [written |-> TRUE, content |-> x]

IdleFilter ==
  /\ boxes_json = [has_boxes |-> FALSE, boxes |-> <<>>]
  /\ csv_header = {} /\ csv_read = <<>> /\ boxes = <<>>
  /\ combined_rows = <<>>
  /\ per_box_icaos = <<>> /\ per_box_seen = <<>>
  /\ out_csv = NotWritten /\ out_json = NotWritten

\* main: boxes = load_boxes(boxes_path)
LoadBoxes ==
  /\ prog = "filter" /\ pc = "load_boxes"
  /\ LET r == load_boxes(boxes_json) IN
       /\ boxes' = r.boxes
       /\ pc' = IF r.ok THEN "filter_csv" ELSE "error"
  /\ UNCHANGED <<prog, boxes_json, csv_header, csv_read, combined_rows,
                 per_box_icaos, per_box_seen, out_csv, out_json,
                 contains_vars, merge_vars>>

\* filter_csv up to its row loop: the collections, the header validation
FilterOpen ==
  /\ prog = "filter" /\ pc = "filter_csv"
  /\ combined_rows' = <<>>
  /\ per_box_icaos' = [n \in {boxes[i].name : i \in 1..Len(boxes)} |-> <<>>]
  /\ per_box_seen' = [n \in {boxes[i].name : i \in 1..Len(boxes)} |-> {}]
  /\ pc' = IF {LAT_COL, LON_COL, ICAO_COL} \ csv_header # {} THEN "error" ELSE "rows"
  /\ UNCHANGED <<prog, boxes_json, csv_header, csv_read, boxes, out_csv, out_json,
                 contains_vars, merge_vars>>

\* one turn of "for row in reader", the reader yielding any row
FilterRow ==
  /\ prog = "filter" /\ pc = "rows"
  /\ Len(csv_read) < MaxRows
  /\ \E r \in AirportRows :
       LET row == [c \in csv_header |-> r[c]]
           st == FilterRowBody([seen |-> per_box_seen, icaos |-> per_box_icaos,
                                rows |-> combined_rows], boxes, row)
       IN /\ csv_read' = Append(csv_read, row)
          /\ per_box_seen' = st.seen
          /\ per_box_icaos' = st.icaos
          /\ combined_rows' = st.rows
  /\ UNCHANGED <<prog, pc, boxes_json, csv_header, boxes, out_csv, out_json,
                 contains_vars, merge_vars>>

\* the reader is exhausted: filter_csv returns
FilterReturn ==
  /\ prog = "filter" /\ pc = "rows"
  /\ pc' = "write_combined_csv"
  /\ UNCHANGED <<prog, filter_vars, contains_vars, merge_vars>>

\* writer.writerows(rows): the rows as given
write_combined_csv(rows) == rows

WriteCombinedCsv ==
  /\ prog = "filter" /\ pc = "write_combined_csv"
  /\ out_csv' = Written(write_combined_csv(combined_rows))
  /\ pc' = "write_per_box_json"
  /\ UNCHANGED <<prog, boxes_json, csv_header, csv_read, boxes, combined_rows,
                 per_box_icaos, per_box_seen, out_json, contains_vars, merge_vars>>

\* (a mutant: the lists are written in first-seen order)
write_per_box_json_mutant_as_found(per_box) == per_box

\* per_box_sorted
write_per_box_json(per_box) == [k \in DOMAIN per_box |-> sorted(per_box[k])]

WritePerBoxJson ==
  /\ prog = "filter" /\ pc = "write_per_box_json"
  /\ out_json' = Written(write_per_box_json(per_box_icaos))
  /\ pc' = "done"
  /\ UNCHANGED <<prog, boxes_json, csv_header, csv_read, boxes, combined_rows,
                 per_box_icaos, per_box_seen, out_csv, contains_vars, merge_vars>>

----------------------------------------------------------------------------
(* add_icao_points_from_csv_to_geojson.py: the inputs. *)

Polygon(id) ==
  [type |-> "Feature", id |-> id,
   properties |-> [type |-> "corridor", icao |-> <<>>, boxes |-> <<>>, box_count |-> 0],
   geometry |-> [type |-> "Polygon", coordinates |-> <<>>]]

P1 == Polygon(<<"p","1">>)
P2 == Polygon(<<"p","2">>)

GeoDoc(type, has_features, is_list, items) ==
  [type |-> type, has_features |-> has_features, is_list |-> is_list, features |-> items]

\* the polygon documents: three feature collections, and three that are none
GeoDocs ==
  { GeoDoc("FeatureCollection", TRUE, TRUE, <<>>),
    GeoDoc("FeatureCollection", TRUE, TRUE, <<P1>>),
    GeoDoc("FeatureCollection", TRUE, TRUE, <<P2, P1>>),
    GeoDoc("Feature", TRUE, TRUE, <<P1>>),                \* another type
    GeoDoc("FeatureCollection", FALSE, FALSE, <<>>),      \* no "features"
    GeoDoc("FeatureCollection", TRUE, FALSE, <<>>) }      \* "features": null

MatchCols == {BOX_COL, ICAO_COL, LAT_COL, LON_COL}

MatchRow(box, icao, lat, lon) ==
  [c \in MatchCols |->
     CASE c = BOX_COL -> box
       [] c = ICAO_COL -> icao
       [] c = LAT_COL -> lat
       [] c = LON_COL -> lon]

\* the rows a matches table is made of
MatchRows ==
  { MatchRow(Cell(<<"E">>), Cell(<<"A","B">>), Cell(<<"0",".","0">>), Cell(<<"1","7","5",".","0">>)),
    MatchRow(Cell(<<"W">>), Cell(<<"A","B">>), Cell(<<"0",".","0">>), Cell(<<"1","7","5",".","0">>)),
    MatchRow(Cell(<<" ","W"," ">>), Cell(<<"a","b"," ">>), Cell(<<"5","0",".","0">>), Cell(<<"0",".","0">>)),
    MatchRow(Cell(<<"e">>), Cell(<<"A","A">>), Cell(<<"0",".","0">>), Cell(<<"-","1","7","5",".","0">>)),
    MatchRow(Cell(<<"W">>), Cell(<<"C","D">>), Cell(<<"0",".","0">>), Cell(<<"2","0","0",".","0">>)),
    MatchRow(Cell(<<"E">>), Cell(<<"C","D">>), Cell(<<"9","5">>), Cell(<<"0">>)),
    MatchRow(Cell(<<"E">>), Cell(<<"C","D">>), Cell(<<"5","0",".","0">>), Cell(<<"1","7","5",".","0">>)),
    MatchRow(Cell(<<" ">>), Cell(<<"A","B">>), Cell(<<"0",".","0">>), Cell(<<"0",".","0">>)),
    MatchRow(Cell(<<"E">>), Cell(<<" ">>), Cell(<<"0",".","0">>), Cell(<<"0",".","0">>)),
    MatchRow(Cell(<<"E">>), Cell(<<"A","A">>), NoCell, Cell(<<"0",".","0">>)),
    MatchRow(Cell(<<"E">>), Cell(<<"A","A">>), Cell(<<"0",".","0">>), Cell(<<"x">>)) }

\* reader.fieldnames: the four columns, no box column, no header
MatchHeaders == { MatchCols, MatchCols \ {BOX_COL}, {} }

----------------------------------------------------------------------------
(* add_icao_points_from_csv_to_geojson.py: main *)

MergeIcao(row) == Upper(Strip(OrEmpty(RowGet(row, ICAO_COL))))
MergeBox(row) == Strip(OrEmpty(RowGet(row, BOX_COL)))
MergeLat(row) == safe_float(RowGet(row, LAT_COL))
MergeLon(row) == safe_float(RowGet(row, LON_COL))

\* "Skip incomplete rows"
Incomplete(row) ==
  \/ MergeIcao(row) = <<>> \/ MergeBox(row) = <<>>
  \/ ~MergeLat(row).some \/ ~MergeLon(row).some

\* "Basic sanity bounds"
InBounds(lat, lon) == -90 <= lat /\ lat <= 90 /\ -180 <= lon /\ lon <= 180

MergeSkips(row) ==
  Incomplete(row) \/ ~InBounds(MergeLat(row).v, MergeLon(row).v)

\* (a mutant: a later row of a code overwrites its coordinates)
Aggregate_mutant_last_wins(data, icao, lat, lon, box) ==
  LET old == IF icao \in DOMAIN data THEN data[icao].boxes ELSE {}
      d == [k \in (DOMAIN data) \cup {icao} |->
              IF k = icao THEN [lat |-> lat, lon |-> lon, boxes |-> old] ELSE data[k]]
  IN [d EXCEPT ![icao].boxes = @ \cup {box}]

\* (a mutant: the box of a code's first row is not added)
Aggregate_mutant_else_add(data, icao, lat, lon, box) ==
  IF icao \notin DOMAIN data
    THEN data @@ (icao :> [lat |-> lat, lon |-> lon, boxes |-> {}])
    ELSE [data EXCEPT ![icao].boxes = @ \cup {box}]

\* icao_to_data after lines 69-75
Aggregate(data, icao, lat, lon, box) ==
  LET d == IF icao \notin DOMAIN data
             THEN data @@ (icao :> [lat |-> lat, lon |-> lon, boxes |-> {}])
             ELSE data
  IN [d EXCEPT ![icao].boxes = @ \cup {box}]

\* (a mutant: the row is counted as used before the sanity bounds)
MergeRowBody_mutant_count_early(st, row) ==
  LET read == st.read + 1 IN
    IF Incomplete(row) THEN [st EXCEPT !.read = read]
    ELSE IF MergeSkips(row) THEN [st EXCEPT !.read = read, !.used = @ + 1]
    ELSE [data |-> Aggregate(st.data, MergeIcao(row), MergeLat(row).v,
                             MergeLon(row).v, MergeBox(row)),
          read |-> read,
          used |-> st.used + 1]

\* the body of "for row in reader"; st is icao_to_data and the two counters
MergeRowBody(st, row) ==
  LET read == st.read + 1 IN
    IF MergeSkips(row) THEN [st EXCEPT !.read = read]
    ELSE [data |-> Aggregate(st.data, MergeIcao(row), MergeLat(row).v,
                             MergeLon(row).v, MergeBox(row)),
          read |-> read,
          used |-> st.used + 1]

\* one Point feature
PointFeature(icao, d) ==
  LET bs == sorted(SetToSeq(d.boxes)) IN
    [type |-> "Feature", id |-> <<"I","C","A","O","_">> \o icao,
     properties |-> [type |-> "airport", icao |-> icao, boxes |-> bs,
                     box_count |-> Len(bs)],
     geometry |-> [type |-> "Point", coordinates |-> <<d.lon, d.lat>>]]

\* point_features after lines 79-100
BuildPoints(data) ==
  LET keys == sorted(SetToSeq(DOMAIN data)) IN
    [i \in 1..Len(keys) |-> PointFeature(keys[i], data[keys[i]])]

\* (a mutant: the points are put before the polygons)
Extend_mutant_points_first(doc, points) == [doc EXCEPT !.features = points \o @]

\* gj after gj["features"].extend(point_features)
Extend(doc, points) == [doc EXCEPT !.features = @ \o points]

NoDoc == GeoDoc("", FALSE, FALSE, <<>>)

IdleMerge ==
  /\ gj_file = NoDoc /\ gj = NoDoc
  /\ m_header = {} /\ m_read = <<>>
  /\ icao_to_data = <<>> /\ rows_read = 0 /\ rows_used = 0
  /\ point_features = <<>>
  /\ out_geojson = NotWritten

\* main up to the row loop: the document's shape, the header validation
MergeOpen ==
  /\ prog = "merge" /\ pc = "load"
  /\ gj' = gj_file
  /\ pc' = IF gj'.type # "FeatureCollection" \/ ~gj'.has_features THEN "error"
           ELSE IF MatchCols \ m_header # {} THEN "error"
           ELSE "rows"
  /\ icao_to_data' = <<>> /\ rows_read' = 0 /\ rows_used' = 0
  /\ UNCHANGED <<prog, gj_file, m_header, m_read, point_features, out_geojson,
                 contains_vars, filter_vars>>

\* one turn of "for row in reader", the reader yielding any row
MergeRow ==
  /\ prog = "merge" /\ pc = "rows"
  /\ Len(m_read) < MaxRows
  /\ \E r \in MatchRows :
       LET row == [c \in m_header |-> r[c]]
           st == MergeRowBody([data |-> icao_to_data, read |-> rows_read,
                               used |-> rows_used], row)
       IN /\ m_read' = Append(m_read, row)
          /\ icao_to_data' = st.data
          /\ rows_read' = st.read
          /\ rows_used' = st.used
  /\ UNCHANGED <<prog, pc, gj_file, gj, m_header, point_features, out_geojson,
                 contains_vars, filter_vars>>

\* the reader is exhausted: build the Point features
MergeBuild ==
  /\ prog = "merge" /\ pc = "rows"
  /\ point_features' = BuildPoints(icao_to_data)
  /\ pc' = "extend"
  /\ UNCHANGED <<prog, gj_file, gj, m_header, m_read, icao_to_data, rows_read,
                 rows_used, out_geojson, contains_vars, filter_vars>>

\* gj["features"].extend(point_features); it raises where "features" is no list
MergeExtend ==
  /\ prog = "merge" /\ pc = "extend"
  /\ IF gj.is_list
       THEN gj' = Extend(gj, point_features) /\ pc' = "write"
       ELSE gj' = gj /\ pc' = "error"
  /\ UNCHANGED <<prog, gj_file, m_header, m_read, icao_to_data, rows_read,
                 rows_used, point_features, out_geojson, contains_vars, filter_vars>>

\* json.dump(gj, f): the document's features, as the output file holds them
MergeWrite ==
  /\ prog = "merge" /\ pc = "write"
  /\ out_geojson' = Written(gj.features)
  /\ pc' = "done"
  /\ UNCHANGED <<prog, gj_file, gj, m_header, m_read, icao_to_data, rows_read,
                 rows_used, point_features, contains_vars, filter_vars>>

----------------------------------------------------------------------------
(* The specifications: one run of one program on any input. *)

InitContains ==
  /\ prog = "contains" /\ pc = "call"
  /\ c_box \in {Box(<<"b">>, a, b, c, d) : a \in Deg, b \in Deg, c \in Deg, d \in Deg}
  /\ c_box.min_lat <= c_box.max_lat
  /\ c_lat \in Deg /\ c_lon \in Deg
  /\ c_res = FALSE
  /\ IdleFilter /\ IdleMerge

InitFilter ==
  /\ prog = "filter" /\ pc = "load_boxes"
  /\ boxes_json \in BoxDocs
  /\ csv_header \in AirportHeaders
  /\ csv_read = <<>> /\ boxes = <<>> /\ combined_rows = <<>>
  /\ per_box_icaos = <<>> /\ per_box_seen = <<>>
  /\ out_csv = NotWritten /\ out_json = NotWritten
  /\ IdleContains /\ IdleMerge

InitMerge ==
  /\ prog = "merge" /\ pc = "load"
  /\ gj_file \in GeoDocs /\ gj = NoDoc
  /\ m_header \in MatchHeaders
  /\ m_read = <<>>
  /\ icao_to_data = <<>> /\ rows_read = 0 /\ rows_used = 0
  /\ point_features = <<>>
  /\ out_geojson = NotWritten
  /\ IdleContains /\ IdleFilter

NextContains == ContainsCall

NextFilter ==
  \/ LoadBoxes
  \/ FilterOpen
  \/ FilterRow
  \/ FilterReturn
  \/ WriteCombinedCsv
  \/ WritePerBoxJson

NextMerge ==
  \/ MergeOpen
  \/ MergeRow
  \/ MergeBuild
  \/ MergeExtend
  \/ MergeWrite

SpecContains == InitContains /\ [][NextContains]_vars
SpecFilter == InitFilter /\ [][NextFilter]_vars
SpecMerge == InitMerge /\ [][NextMerge]_vars

Init == InitFilter \/ InitMerge
Next == NextFilter \/ NextMerge
Spec == Init /\ [][Next]_vars

----------------------------------------------------------------------------
(* What the claims speak of, stated apart from the code's own tests. *)

InClosed(lo, x, hi) == lo <= x /\ x <= hi

\* the point lies in the box: closed intervals, the longitudes across the
\* antimeridian where min_lon > max_lon
Inside(b, lat, lon) ==
  /\ InClosed(b.min_lat, lat, b.max_lat)
  /\ \/ b.min_lon <= b.max_lon /\ InClosed(b.min_lon, lon, b.max_lon)
     \/ b.min_lon > b.max_lon /\ (lon >= b.min_lon \/ lon <= b.max_lon)

ValidLatLon(lat, lon) == InClosed(-90, lat, 90) /\ InClosed(-180, lon, 180)

NoDuplicates(xs) == \A i, j \in 1..Len(xs) : xs[i] = xs[j] => i = j
StrictlyAscending(xs) == \A i, j \in 1..Len(xs) : i < j => StrLess(xs[i], xs[j])

First(S) == CHOOSE i \in S : \A j \in S : i <= j

PAC == Box(<<"P","A","C">>, -10, 10, 170, -170)

----------------------------------------------------------------------------
(* C1: Box.contains(lat, lon) is true iff lat is in [min_lat, max_lat] and
   lon is in [min_lon, max_lon] when min_lon <= max_lon, or lon >= min_lon
   or lon <= max_lon when min_lon > max_lon, all ends inclusive; the box
   (min_lon 170, max_lon -170) contains (0, 175) and (0, -175), not (0, 0). *)
C1_ContainsClosedIntervals ==
  /\ pc = "returned" => (c_res <=> Inside(c_box, c_lat, c_lon))
  /\ contains(PAC, 0, 175) /\ contains(PAC, 0, -175) /\ ~contains(PAC, 0, 0)
  /\ contains(PAC, 10, 170) /\ contains(PAC, -10, -170)

\* an antimeridian-crossing box has answered true for a point of its western
\* part, on the bound
C1_Witness ==
  /\ prog = "contains" /\ pc = "returned" /\ c_res
  /\ c_box.min_lon > c_box.max_lon /\ c_lon = c_box.max_lon
  /\ c_lat = c_box.max_lat

----------------------------------------------------------------------------
(* The filter stage, after any prefix of the rows. *)

BoxNames == {boxes[j].name : j \in 1..Len(boxes)}

\* what the filter stage makes of a row
AirportReading(row) ==
  [skipped |-> FilterSkips(row), icao |-> RowIcao(row),
   lat |-> safe_float(RowGet(row, LAT_COL)), lon |-> safe_float(RowGet(row, LON_COL)),
   ident |-> OrEmpty(RowGet(row, "ident")), name |-> OrEmpty(RowGet(row, "name"))]

\* (the reading of every row a table can hold, made once)
AirportReadingOf == [r \in AirportRows |-> AirportReading(r)]

\* the readings of the rows read so far
AirportReadings == [i \in 1..Len(csv_read) |-> AirportReadingOf[csv_read[i]]]

\* the rows of rs, not skipped, that carry code k and lie inside box b
Hits(rs, b, k) ==
  {i \in 1..Len(rs) :
     /\ ~rs[i].skipped
     /\ rs[i].icao = k
     /\ Inside(b, rs[i].lat.v, rs[i].lon.v)}

\* the combined row carries the coordinates (as numbers) and the pass-through
\* fields (up to surrounding blanks) of the input row
Carries(out, r) ==
  /\ safe_float(Cell(out.latitude_deg)) = r.lat
  /\ safe_float(Cell(out.longitude_deg)) = r.lon
  /\ out.ident = Strip(r.ident)
  /\ out.name = Strip(r.name)

RowsFor(n, k) ==
  {i \in 1..Len(combined_rows) :
     combined_rows[i].box_name = n /\ combined_rows[i].icao_code = k}

(* C2: after any prefix of the rows, the combined list holds exactly one row
   for each (box, code) such that a non-skipped row of the prefix with that
   code lies inside the box, and no other row; the row carries the
   coordinates and pass-through fields of the first such input row. *)
C2_OneRowPerBoxAndCode ==
  (prog = "filter" /\ pc = "rows") =>
    LET rs == AirportReadings IN
      /\ \A i \in 1..Len(combined_rows) :
           \E j \in 1..Len(boxes) :
             LET h == Hits(rs, boxes[j], combined_rows[i].icao_code) IN
               /\ boxes[j].name = combined_rows[i].box_name
               /\ h # {}
               /\ Carries(combined_rows[i], rs[First(h)])
      /\ \A j \in 1..Len(boxes) : \A k \in {rs[i].icao : i \in 1..Len(rs)} :
           Cardinality(RowsFor(boxes[j].name, k)) =
             IF Hits(rs, boxes[j], k) # {} THEN 1 ELSE 0

\* a code has been read twice inside one box, with two longitudes, and once
\* inside another box
C2_Witness ==
  /\ prog = "filter" /\ pc = "rows"
  /\ \E j1, j2 \in 1..Len(boxes) :
     \E k \in {AirportReadings[i].icao : i \in 1..Len(csv_read)} :
       /\ j1 # j2
       /\ Hits(AirportReadings, boxes[j2], k) # {}
       /\ \E a, b \in Hits(AirportReadings, boxes[j1], k) :
            a < b /\ AirportReadings[a].lon # AirportReadings[b].lon

----------------------------------------------------------------------------
KeyLeq(o1, o2) ==
  \/ StrLess(o1.box_name, o2.box_name)
  \/ o1.box_name = o2.box_name /\ StrLeq(o1.icao_code, o2.icao_code)

(* C3: the matches table the filter stage writes has its rows sorted
   ascending by (box_name, icao_code). *)
C3_MatchesTableSorted ==
  (prog = "filter" /\ out_csv.written) =>
    \A i, j \in 1..Len(out_csv.content) :
      i < j => KeyLeq(out_csv.content[i], out_csv.content[j])

----------------------------------------------------------------------------
\* a row of the matches table, as the merge stage reads it back
ReadBack(out) ==
  MatchRow(Cell(out.box_name), Cell(out.icao_code),
           Cell(out.latitude_deg), Cell(out.longitude_deg))

(* C4: every row of the matches table the filter stage writes has its
   latitude in [-90, 90] and its longitude in [-180, 180], so that the merge
   stage skips none of them. *)
C4_MatchesTableInRange ==
  (prog = "filter" /\ out_csv.written) =>
    \A i \in 1..Len(out_csv.content) :
      LET o == out_csv.content[i] IN
        /\ ValidLatLon(safe_float(Cell(o.latitude_deg)).v,
                       safe_float(Cell(o.longitude_deg)).v)
        /\ ~MergeSkips(ReadBack(o))

----------------------------------------------------------------------------
CodesOf(rows) == [i \in 1..Len(rows) |-> rows[i].icao_code]

RowsOfBox(n) ==
  LET OfBox(o) == o.box_name = n IN SelectSeq(combined_rows, OfBox)

(* C10: after any prefix of the rows, for every declared box, per_box_icaos
   has no duplicates, equals per_box_seen as a set, and is the list of the
   codes of the combined rows of that box, in their order; the per-box
   document lists those codes sorted, under the declared names alone. *)
C10_PerBoxIndexAgrees ==
  (prog = "filter" /\ pc \in {"rows", "done"}) =>
    /\ DOMAIN per_box_icaos = BoxNames
    /\ DOMAIN per_box_seen = BoxNames
    /\ \A n \in BoxNames :
         /\ NoDuplicates(per_box_icaos[n])
         /\ Range(per_box_icaos[n]) = per_box_seen[n]
         /\ per_box_icaos[n] = CodesOf(RowsOfBox(n))
    /\ out_json.written =>
         /\ DOMAIN out_json.content = BoxNames
         /\ \A n \in BoxNames :
              /\ StrictlyAscending(out_json.content[n])
              /\ Range(out_json.content[n]) = Range(per_box_icaos[n])
              /\ Len(out_json.content[n]) = Len(per_box_icaos[n])

\* the document is written; one box matched two codes, the greater first,
\* and another box matched none
C10_Witness ==
  /\ prog = "filter" /\ out_json.written
  /\ \E n, e \in BoxNames :
       /\ per_box_icaos[e] = <<>>
       /\ Len(per_box_icaos[n]) = 2
       /\ StrLess(per_box_icaos[n][2], per_box_icaos[n][1])

----------------------------------------------------------------------------
(* The merge stage, after any prefix of the rows. *)

\* what the merge stage makes of a row
Reading(row) ==
  [skipped |-> MergeSkips(row), icao |-> MergeIcao(row), box |-> MergeBox(row),
   lat |-> MergeLat(row).v, lon |-> MergeLon(row).v]

\* (the reading of every row a table can hold, made once)
ReadingOf == [r \in MatchRows |-> Reading(r)]

\* the readings of the rows read so far
Readings == [i \in 1..Len(m_read) |-> ReadingOf[m_read[i]]]

\* the rows of rs, not skipped, that carry code k
UsedOf(rs, k) == {i \in 1..Len(rs) : ~rs[i].skipped /\ rs[i].icao = k}

CodesUsed(rs) == {rs[i].icao : i \in {j \in 1..Len(rs) : ~rs[j].skipped}}

IsPoint(f) == f.properties.type = "airport"

\* the point features built, and those of the output file
PointsBuilt == Range(point_features)
PointsWritten == {f \in Range(out_geojson.content) : IsPoint(f)}

\* [longitude, latitude] of the first non-skipped row of rs with code k
PointCoordinates(rs, k) ==
  LET r == rs[First(UsedOf(rs, k))] IN <<r.lon, r.lat>>

(* C6: first-writer wins: for every code, the stored coordinates are those
   of the first non-skipped row with that code, whatever a later row holds,
   at every point of the row loop; the point feature emitted for the code has
   geometry.coordinates [longitude, latitude] of that row. *)
C6_FirstWriterWins ==
  prog = "merge" =>
    LET rs == Readings IN
      /\ \A k \in DOMAIN icao_to_data :
           /\ UsedOf(rs, k) # {}
           /\ <<icao_to_data[k].lon, icao_to_data[k].lat>> = PointCoordinates(rs, k)
      /\ \A f \in PointsBuilt \cup PointsWritten :
           /\ UsedOf(rs, f.properties.icao) # {}
           /\ f.geometry.type = "Point"
           /\ f.geometry.coordinates = PointCoordinates(rs, f.properties.icao)

\* the output is written; a code was read twice with two pairs of
\* coordinates, the first pair with a longitude other than its latitude
C6_Witness ==
  /\ prog = "merge" /\ out_geojson.written
  /\ \E a, b \in 1..Len(m_read) :
       /\ a < b
       /\ ~Readings[a].skipped /\ ~Readings[b].skipped
       /\ Readings[a].icao = Readings[b].icao
       /\ Readings[a].lat # Readings[b].lat
       /\ Readings[a].lon # Readings[b].lon
       /\ Readings[a].lat # Readings[a].lon

----------------------------------------------------------------------------
BoxesOf(rs, k) == {rs[i].box : i \in UsedOf(rs, k)}

(* C7: for every code, the point feature's boxes is the duplicate-free,
   sorted list of the box names of all non-skipped rows with that code, the
   first included; box_count is its length and at least 1; a box name added
   again leaves the set as it is. *)
C7_BoxesOfACode ==
  prog = "merge" =>
    LET rs == Readings IN
      /\ \A k \in DOMAIN icao_to_data : icao_to_data[k].boxes = BoxesOf(rs, k)
      /\ \A f \in PointsBuilt \cup PointsWritten :
           /\ StrictlyAscending(f.properties.boxes)
           /\ Range(f.properties.boxes) = BoxesOf(rs, f.properties.icao)
           /\ f.properties.box_count = Len(f.properties.boxes)
           /\ f.properties.box_count >= 1

\* the output is written; a code was read on three rows, two of them with
\* the same box name, the greater box name first
C7_Witness ==
  /\ prog = "merge" /\ out_geojson.written
  /\ \E f \in PointsWritten :
       LET u == UsedOf(Readings, f.properties.icao) IN
         /\ f.properties.box_count = 2
         /\ Cardinality(u) = 3
         /\ StrLess(f.properties.boxes[1], Readings[First(u)].box)

----------------------------------------------------------------------------
IcaoId(k) == <<"I","C","A","O","_">> \o k

(* C8: the output feature list is the input feature list, unchanged and in
   its order, followed by exactly one point feature per distinct code of the
   non-skipped rows, in ascending order of code, each with id "ICAO_" + code. *)
C8_PolygonsThenSortedPoints ==
  (prog = "merge" /\ out_geojson.written) =>
    LET out == out_geojson.content
        n == Len(gj_file.features)
        added == SubSeq(out, n + 1, Len(out))
        codes == [i \in 1..Len(added) |-> added[i].properties.icao]
        used == CodesUsed(Readings)
    IN /\ Len(out) = n + Cardinality(used)
       /\ SubSeq(out, 1, n) = gj_file.features
       /\ StrictlyAscending(codes)
       /\ Range(codes) = used
       /\ \A i \in 1..Len(added) :
            /\ IsPoint(added[i])
            /\ added[i].type = "Feature"
            /\ added[i].id = IcaoId(codes[i])

\* two polygons were given, and two codes were read, the greater first
C8_Witness ==
  /\ prog = "merge" /\ out_geojson.written
  /\ Len(gj_file.features) = 2
  /\ gj_file.features[1] # gj_file.features[2]
  /\ \E a, b \in 1..Len(m_read) :
       /\ a < b /\ ~Readings[a].skipped /\ ~Readings[b].skipped
       /\ StrLess(Readings[b].icao, Readings[a].icao)

----------------------------------------------------------------------------
\* a row skipped for an empty code or a missing or unparsable coordinate
NoCodeOrCoordinate(row) ==
  MergeIcao(row) = <<>> \/ ~MergeLat(row).some \/ ~MergeLon(row).some

\* a row with a code and coordinates, one of them out of its range
OutOfRange(row) ==
  ~NoCodeOrCoordinate(row) /\ ~ValidLatLon(MergeLat(row).v, MergeLon(row).v)

\* a row with a code and coordinates, and no box name
NoBoxName(row) == ~NoCodeOrCoordinate(row) /\ MergeBox(row) = <<>>

\* (of every row a table can hold, made once)
KindOf ==
  [r \in MatchRows |->
     [no_code_or_coordinate |-> NoCodeOrCoordinate(r),
      out_of_range |-> OutOfRange(r),
      no_box_name |-> NoBoxName(r)]]

Kinds == [i \in 1..Len(m_read) |-> KindOf[m_read[i]]]

IsNoCodeCoordinateOrBox(k) == k.no_code_or_coordinate \/ k.no_box_name
IsOutOfRangeWithBox(k) == k.out_of_range /\ ~k.no_box_name

\* how many of the rows read so far are of each kind
CountNoCodeOrCoordinate ==
  Cardinality({i \in 1..Len(m_read) : Kinds[i].no_code_or_coordinate})
CountOutOfRange ==
  Cardinality({i \in 1..Len(m_read) : Kinds[i].out_of_range})
CountNoBoxName ==
  Cardinality({i \in 1..Len(m_read) : Kinds[i].no_box_name})
CountNoCodeCoordinateOrBox ==
  Cardinality({i \in 1..Len(m_read) : IsNoCodeCoordinateOrBox(Kinds[i])})
CountOutOfRangeWithBox ==
  Cardinality({i \in 1..Len(m_read) : IsOutOfRangeWithBox(Kinds[i])})

(* C9, as claimed: rows read is N, and rows used is N minus the rows skipped
   for an empty code or a missing or unparsable coordinate, minus the rows
   with a latitude or longitude out of range. *)
C9_CountsAsClaimed ==
  (prog = "merge" /\ pc \in {"extend", "write", "done"}) =>
    /\ rows_read = Len(m_read)
    /\ rows_used = Len(m_read) - CountNoCodeOrCoordinate - CountOutOfRange

C9_Counts ==
  (prog = "merge" /\ pc # "load") =>
    /\ rows_read = Len(m_read)
    /\ rows_used = Len(m_read) - CountNoCodeCoordinateOrBox - CountOutOfRangeWithBox

\* a step of the row loop on a skipped row
C9_SkipStep ==
  (/\ prog = "merge" /\ m_read' # m_read
   /\ LET k == KindOf[m_read'[Len(m_read')]] IN
        IsNoCodeCoordinateOrBox(k) \/ IsOutOfRangeWithBox(k))
    => /\ rows_used' = rows_used
       /\ icao_to_data' = icao_to_data
       /\ rows_read' = rows_read + 1

(* C9, amended: rows read is N, and rows used is N minus the rows skipped for
   an empty code, an empty box name or a missing or unparsable coordinate,
   minus the rows with a latitude or longitude out of range; a skipped row
   leaves rows used and the aggregate as they are. *)
C9_RowCounts == [](C9_Counts) /\ [][C9_SkipStep]_vars

\* the run is done: one row had no box name, one was out of range, one was used
C9_Witness ==
  /\ prog = "merge" /\ pc = "done"
  /\ rows_used = 1 /\ rows_read = 3
  /\ CountNoBoxName = 1
  /\ CountOutOfRangeWithBox = 1

----------------------------------------------------------------------------
(* The fatal input errors, as the inputs show them. *)

BoundKeys == {"min_lat", "max_lat", "min_lon", "max_lon"}

\* a bound is numeric: a number, or a text that reads as one
IsNumeric(j) == j.t = "num" \/ (j.t = "str" /\ FloatOfStr(j.s).some)
NumberOf(j) == IF j.t = "num" THEN j.n ELSE FloatOfStr(j.s).v

HasNumber(e, k) == k \in DOMAIN e /\ IsNumeric(e[k])

MissingField(e) == ~(BoxKeys \subseteq DOMAIN e)
NonNumericBound(e) == \E k \in BoundKeys \cap DOMAIN e : ~IsNumeric(e[k])
NameOf(e) == Strip(JText(e["name"]))
EmptyName(e) == "name" \in DOMAIN e /\ NameOf(e) = <<>>
LatInverted(e) ==
  /\ HasNumber(e, "min_lat") /\ HasNumber(e, "max_lat")
  /\ NumberOf(e["min_lat"]) > NumberOf(e["max_lat"])
BoundOutOfRange(e) ==
  \/ \E k \in {"min_lat", "max_lat"} :
       HasNumber(e, k) /\ ~InClosed(-90, NumberOf(e[k]), 90)
  \/ \E k \in {"min_lon", "max_lon"} :
       HasNumber(e, k) /\ ~InClosed(-180, NumberOf(e[k]), 180)

FatalEntry(e) ==
  \/ MissingField(e) \/ NonNumericBound(e) \/ EmptyName(e)
  \/ LatInverted(e) \/ BoundOutOfRange(e)

DuplicateName(es) ==
  \E i, j \in 1..Len(es) :
    /\ i # j /\ "name" \in DOMAIN es[i] /\ "name" \in DOMAIN es[j]
    /\ NameOf(es[i]) = NameOf(es[j])

\* (of every entry a document can hold, made once)
FatalEntryOf == [e \in BoxEntries |-> FatalEntry(e)]

FatalBoxes ==
  \/ \E i \in 1..Len(boxes_json.boxes) : FatalEntryOf[boxes_json.boxes[i]]
  \/ DuplicateName(boxes_json.boxes)

FatalAirportHeader == ~({LAT_COL, LON_COL, ICAO_COL} \subseteq csv_header)
FatalMatchHeader == ~({BOX_COL, ICAO_COL, LAT_COL, LON_COL} \subseteq m_header)
FatalPolygons ==
  gj_file.type # "FeatureCollection" \/ ~gj_file.has_features \/ ~gj_file.is_list

NothingWritten == ~out_csv.written /\ ~out_json.written /\ ~out_geojson.written

\* the run has ended in an error, or has not ended: every position but
\* "done" and "error" has a next step
EndsInError == pc # "done"

(* C5: a fatal input error aborts the run before any output is written: with
   a box entry that misses a field or has a non-numeric bound, an empty name,
   a duplicate name, min_lat > max_lat or a bound out of its range, or a
   table header without a required column, or a polygon document that is no
   FeatureCollection with a features array, the run ends in an error and no
   output file is written; min_lon > max_lon alone is accepted. *)
C5_FatalInputWritesNothing ==
  /\ prog = "filter" =>
       \/ NothingWritten /\ EndsInError
       \/ ~(FatalBoxes \/ FatalAirportHeader)
  /\ prog = "merge" =>
       \/ NothingWritten /\ EndsInError
       \/ ~(FatalPolygons \/ FatalMatchHeader)
  /\ (prog = "filter" /\ pc = "error") =>
       (~boxes_json.has_boxes \/ FatalBoxes \/ FatalAirportHeader)

\* runs have ended in an error: on two boxes of one name
C5_Witness ==
  /\ prog = "filter" /\ pc = "error"
  /\ DuplicateName(boxes_json.boxes)
  /\ \A i \in 1..Len(boxes_json.boxes) : ~FatalEntryOf[boxes_json.boxes[i]]
  /\ ~FatalAirportHeader

============================================================================
